---- MODULE Spec2Model ----
(***************************************************************************)
(* Model of the exam timer of src/timer.py: the session state of the page  *)
(* (num_timers, timer_configs, timer_states, finished_timers), the wall    *)
(* clock, and one action per script run.  A Streamlit script runs from top *)
(* to bottom on every widget event and on every auto-refresh; st.rerun()   *)
(* abandons the run in progress and starts a new one at once.  An action   *)
(* below is therefore the whole chain of runs one event causes, ending     *)
(* with a run that reaches the bottom of the script.                       *)
(*                                                                         *)
(* Representation.  A timer id "timer_<i>" is held as the index i.  None   *)
(* is held as -1.  Minutes are held in units of 0.25 min (the step of the  *)
(* Minutes input), times and the clock in seconds.                         *)
(***************************************************************************)
EXTENDS Integers, Sequences, FiniteSets, TLC

\* ------------------------------------------------------------- bounds

\* Slots modelled (the slider of the program allows up to 6).
MaxTimers == 2

\* Timers shown when the session starts (the program starts with 4 of 6).
DefaultNumTimers == 1

\* The clock readings, in seconds, at which the user acts and the script
\* runs.  A 15 s timer started at 0 reads 5 at 10 and has expired at 16; one
\* started at 16 has expired at 32.
Instants == {0, 10, 16, 32}

\* Values the user types into the Minutes input besides the default, in
\* units of 0.25 min: 0.25 min, the least the input accepts.
TypedMinutes == {1}

\* ---------------------------------------------------------- constants

None == -1

Slots == 0 .. (MaxTimers - 1)

AVAILABLE_FREQUENCIES == <<440, 523, 659, 783, 880, 1047, 1175, 1319>>

\* Default configurations; minutes in units of 0.25 min (75 min = 300).
DefaultConfigs ==
    <<[name |-> "Standard Time",  minutes |-> 300, frequency |-> 440],
      [name |-> "5 min/hr ext",   minutes |-> 325, frequency |-> 523],
      [name |-> "10 min/hr ext",  minutes |-> 350, frequency |-> 659],
      [name |-> "15 min/hr ext",  minutes |-> 375, frequency |-> 783],
      [name |-> "Custom Timer 5", minutes |-> 240, frequency |-> 880],
      [name |-> "Custom Timer 6", minutes |-> 360, frequency |-> 1047]>>

\* The slots whose inputs the user edits; the others keep their defaults.
EditedSlots == {0}

\* What the three inputs of slot i are set to; the Sound input holds an
\* index into AVAILABLE_FREQUENCIES, slot i having entry i + 1 by default.
NameChoices(i) ==
    {DefaultConfigs[i + 1].name} \cup (IF i \in EditedSlots THEN {"Renamed"} ELSE {})

MinutesChoices(i) ==
    {DefaultConfigs[i + 1].minutes} \cup (IF i \in EditedSlots THEN TypedMinutes ELSE {})

FrequencyChoices(i) == {i + 1} \cup (IF i \in EditedSlots THEN {1, 2} ELSE {})

\* -------------------------------------------------------------- state

VARIABLES
    now,              \* datetime.now(), in seconds since the page was loaded
    num_timers,       \* st.session_state.num_timers
    timer_configs,    \* st.session_state.timer_configs, by slot
    timer_states,     \* st.session_state.timer_states, a dict keyed by timer id
    finished_timers,  \* st.session_state.finished_timers
    newly_finished,   \* the list newly_finished of the latest script run, whose
                      \* frequencies are the tones that run played
    notified,         \* history: appends of a timer to newly_finished since its last reset
    reset_finished    \* history: the timer was reset while it was in finished_timers

vars == <<now, num_timers, timer_configs, timer_states, finished_timers,
          newly_finished, notified, reset_finished>>

\* The session state as one value, which the operations below transform.
Session ==
    [num_timers      |-> num_timers,
     timer_configs   |-> timer_configs,
     timer_states    |-> timer_states,
     finished_timers |-> finished_timers,
     newly_finished  |-> newly_finished,
     notified        |-> notified,
     reset_finished  |-> reset_finished]

Commit(s) ==
    /\ num_timers' = s.num_timers
    /\ timer_configs' = s.timer_configs
    /\ timer_states' = s.timer_states
    /\ finished_timers' = s.finished_timers
    /\ newly_finished' = s.newly_finished
    /\ notified' = s.notified
    /\ reset_finished' = s.reset_finished

\* ------------------------------------------------- the timer functions

Max(a, b) == IF a >= b THEN a ELSE b

\* duration * 60, for a duration held in units of 0.25 min.
DurationSeconds(duration) == (duration * 60) \div 4

\* get_time_remaining with the elapsed time taken as start_time - now.
get_time_remaining_counts_up(s, timer_id) ==
    IF timer_id \notin DOMAIN s.timer_states
    THEN None
    ELSE LET timer_state == s.timer_states[timer_id]
         IN  IF timer_state.start_time = None \/ ~timer_state.is_running
             THEN DurationSeconds(timer_state.duration)
             ELSE LET elapsed == timer_state.start_time - now
                      remaining == DurationSeconds(timer_state.duration) - elapsed
                  IN  Max(0, remaining)

\* get_time_remaining without the clamp at 0.
get_time_remaining_unclamped(s, timer_id) ==
    IF timer_id \notin DOMAIN s.timer_states
    THEN None
    ELSE LET timer_state == s.timer_states[timer_id]
         IN  IF timer_state.start_time = None \/ ~timer_state.is_running
             THEN DurationSeconds(timer_state.duration)
             ELSE DurationSeconds(timer_state.duration) - (now - timer_state.start_time)

get_time_remaining(s, timer_id) ==
    IF timer_id \notin DOMAIN s.timer_states
    THEN None
    ELSE LET timer_state == s.timer_states[timer_id]
         IN  IF timer_state.start_time = None \/ ~timer_state.is_running
             THEN DurationSeconds(timer_state.duration)
             ELSE LET elapsed == now - timer_state.start_time
                      remaining == DurationSeconds(timer_state.duration) - elapsed
                  IN  Max(0, remaining)

initialize_timer_state(s, timer_id, duration) ==
    IF timer_id \notin DOMAIN s.timer_states
    THEN [s EXCEPT !.timer_states =
             [j \in DOMAIN s.timer_states \cup {timer_id} |->
                 IF j = timer_id
                 THEN [start_time |-> None, is_running |-> FALSE, duration |-> duration]
                 ELSE s.timer_states[j]]]
    ELSE s

\* start_timer that sets is_running and leaves start_time as it is.
start_timer_keeps_start_time(s, timer_id) ==
    IF timer_id \in DOMAIN s.timer_states
    THEN [s EXCEPT !.timer_states[timer_id].is_running = TRUE]
    ELSE s

start_timer(s, timer_id) ==
    IF timer_id \in DOMAIN s.timer_states
    THEN [s EXCEPT !.timer_states[timer_id].start_time = now,
                   !.timer_states[timer_id].is_running = TRUE]
    ELSE s

stop_timer(s, timer_id) ==
    IF timer_id \in DOMAIN s.timer_states
    THEN [s EXCEPT !.timer_states[timer_id].is_running = FALSE]
    ELSE s

\* reset_timer that clears start_time and leaves is_running as it is.
reset_timer_keeps_running(s, timer_id) ==
    IF timer_id \in DOMAIN s.timer_states
    THEN [s EXCEPT !.timer_states[timer_id].start_time = None,
                   !.finished_timers = @ \ {timer_id},
                   !.notified[timer_id] = 0,
                   !.reset_finished[timer_id] = @ \/ timer_id \in s.finished_timers]
    ELSE s

\* reset_timer that empties finished_timers.
reset_timer_clears_all_finished(s, timer_id) ==
    IF timer_id \in DOMAIN s.timer_states
    THEN [s EXCEPT !.timer_states[timer_id].start_time = None,
                   !.timer_states[timer_id].is_running = FALSE,
                   !.finished_timers = {},
                   !.notified[timer_id] = 0,
                   !.reset_finished[timer_id] = @ \/ timer_id \in s.finished_timers]
    ELSE s

\* reset_timer that leaves the timer in finished_timers.
reset_timer_keeps_finished(s, timer_id) ==
    IF timer_id \in DOMAIN s.timer_states
    THEN [s EXCEPT !.timer_states[timer_id].start_time = None,
                   !.timer_states[timer_id].is_running = FALSE,
                   !.notified[timer_id] = 0,
                   !.reset_finished[timer_id] = @ \/ timer_id \in s.finished_timers]
    ELSE s

reset_timer(s, timer_id) ==
    IF timer_id \in DOMAIN s.timer_states
    THEN [s EXCEPT !.timer_states[timer_id].start_time = None,
                   !.timer_states[timer_id].is_running = FALSE,
                   !.finished_timers = @ \ {timer_id},
                   !.notified[timer_id] = 0,
                   !.reset_finished[timer_id] = @ \/ timer_id \in s.finished_timers]
    ELSE s

\* The four functions that take a timer id.
TimerFunctions == {"get_time_remaining", "start_timer", "stop_timer", "reset_timer"}

\* timer_call whose functions subscript timer_states without the membership
\* test: Python raises KeyError for an absent key.
timer_call_unguarded(s, fn, timer_id) ==
    IF timer_id \notin DOMAIN s.timer_states
    THEN [raised |-> TRUE, value |-> None, s |-> s]
    ELSE [raised |-> FALSE,
          value  |-> IF fn = "get_time_remaining" THEN get_time_remaining(s, timer_id) ELSE None,
          s      |-> CASE fn = "start_timer" -> start_timer(s, timer_id)
                       [] fn = "stop_timer"  -> stop_timer(s, timer_id)
                       [] fn = "reset_timer" -> reset_timer(s, timer_id)
                       [] OTHER              -> s]

\* How a call of fn(timer_id) ends: whether it raised, the value it returns
\* and the session it leaves.  Each function tests `timer_id in timer_states`
\* first; for an absent id get_time_remaining returns None there and the
\* other three fall off their end, and none has a raise statement.
timer_call(s, fn, timer_id) ==
    IF timer_id \notin DOMAIN s.timer_states
    THEN [raised |-> FALSE, value |-> None, s |-> s]
    ELSE [raised |-> FALSE,
          value  |-> IF fn = "get_time_remaining" THEN get_time_remaining(s, timer_id) ELSE None,
          s      |-> CASE fn = "start_timer" -> start_timer(s, timer_id)
                       [] fn = "stop_timer"  -> stop_timer(s, timer_id)
                       [] fn = "reset_timer" -> reset_timer(s, timer_id)
                       [] OTHER              -> s]

\* The tone is sent to the browser; the session state is untouched.
play_notification_sound(s, frequency) == s

\* ------------------------------------------- the configuration section

\* configure_timer that stores new minutes in the timer state while it runs.
configure_timer_while_running(s, i, new_name, new_minutes, new_freq_idx) ==
    LET s1 == IF new_name # s.timer_configs[i].name
              THEN [s EXCEPT !.timer_configs[i].name = new_name]
              ELSE s
        s2 == IF new_minutes # s1.timer_configs[i].minutes
              THEN LET c == [s1 EXCEPT !.timer_configs[i].minutes = new_minutes]
                   IN  IF i \in DOMAIN c.timer_states
                       THEN [c EXCEPT !.timer_states[i].duration = new_minutes]
                       ELSE c
              ELSE s1
    IN  IF AVAILABLE_FREQUENCIES[new_freq_idx] # s2.timer_configs[i].frequency
        THEN [s2 EXCEPT !.timer_configs[i].frequency = AVAILABLE_FREQUENCIES[new_freq_idx]]
        ELSE s2

\* One pass of the configuration loop body for slot i, the three inputs
\* holding new_name, new_minutes and the index new_freq_idx.
configure_timer(s, i, new_name, new_minutes, new_freq_idx) ==
    LET s1 == IF new_name # s.timer_configs[i].name
              THEN [s EXCEPT !.timer_configs[i].name = new_name]
              ELSE s
        s2 == IF new_minutes # s1.timer_configs[i].minutes
              THEN LET c == [s1 EXCEPT !.timer_configs[i].minutes = new_minutes]
                   IN  IF i \in DOMAIN c.timer_states /\ ~c.timer_states[i].is_running
                       THEN [c EXCEPT !.timer_states[i].duration = new_minutes]
                       ELSE c
              ELSE s1
    IN  IF AVAILABLE_FREQUENCIES[new_freq_idx] # s2.timer_configs[i].frequency
        THEN [s2 EXCEPT !.timer_configs[i].frequency = AVAILABLE_FREQUENCIES[new_freq_idx]]
        ELSE s2

\* ------------------------------------------------- the global controls

RECURSIVE start_all(_, _)
start_all(s, i) ==
    IF i >= s.num_timers
    THEN s
    ELSE start_all(
             start_timer(initialize_timer_state(s, i, s.timer_configs[i].minutes), i),
             i + 1)

\* stop_all that leaves out the last slot.
RECURSIVE stop_all_skips_last(_, _)
stop_all_skips_last(s, i) ==
    IF i >= s.num_timers - 1 THEN s ELSE stop_all_skips_last(stop_timer(s, i), i + 1)

RECURSIVE stop_all(_, _)
stop_all(s, i) ==
    IF i >= s.num_timers THEN s ELSE stop_all(stop_timer(s, i), i + 1)

RECURSIVE reset_all(_, _)
reset_all(s, i) ==
    IF i >= s.num_timers THEN s ELSE reset_all(reset_timer(s, i), i + 1)

\* --------------------------------------------------- the timer display

cols_per_row(n) == IF n > 4 THEN 3 ELSE 2

rows_needed(n) == (n + cols_per_row(n) - 1) \div cols_per_row(n)

\* The timer_idx values the row and column loops visit, in order.
timer_indices(n) ==
    LET all == [k \in 1 .. (rows_needed(n) * cols_per_row(n)) |-> k - 1]
        shown(idx) == idx < n
    IN  SelectSeq(all, shown)

\* poll_timer that stamps a Running timer with the instant of the poll.
poll_timer_restamps(s, timer_idx) ==
    LET config == s.timer_configs[timer_idx]
        s1 == initialize_timer_state(s, timer_idx, config.minutes)
        remaining_seconds == get_time_remaining(s1, timer_idx)
        just_finished == /\ remaining_seconds # None
                         /\ remaining_seconds <= 0
                         /\ s1.timer_states[timer_idx].is_running
                         /\ timer_idx \notin s1.finished_timers
    IN  IF just_finished
        THEN [s1 EXCEPT
                 !.newly_finished = Append(@, <<timer_idx, config.frequency, config.name>>),
                 !.finished_timers = @ \cup {timer_idx},
                 !.timer_states[timer_idx].is_running = FALSE,
                 !.notified[timer_idx] = @ + 1]
        ELSE IF s1.timer_states[timer_idx].is_running
        THEN [s1 EXCEPT !.timer_states[timer_idx].start_time = now]
        ELSE s1

\* poll_timer without the finished_timers test in just_finished.
poll_timer_refire(s, timer_idx) ==
    LET config == s.timer_configs[timer_idx]
        s1 == initialize_timer_state(s, timer_idx, config.minutes)
        remaining_seconds == get_time_remaining(s1, timer_idx)
        just_finished == /\ remaining_seconds # None
                         /\ remaining_seconds <= 0
                         /\ s1.timer_states[timer_idx].is_running
    IN  IF just_finished
        THEN [s1 EXCEPT
                 !.newly_finished = Append(@, <<timer_idx, config.frequency, config.name>>),
                 !.finished_timers = @ \cup {timer_idx},
                 !.timer_states[timer_idx].is_running = FALSE,
                 !.notified[timer_idx] = @ + 1]
        ELSE s1

\* The head of the loop body for one timer: lazy initialisation, the
\* remaining time and the just_finished check.
poll_timer(s, timer_idx) ==
    LET config == s.timer_configs[timer_idx]
        s1 == initialize_timer_state(s, timer_idx, config.minutes)
        remaining_seconds == get_time_remaining(s1, timer_idx)
        just_finished == /\ remaining_seconds # None
                         /\ remaining_seconds <= 0
                         /\ s1.timer_states[timer_idx].is_running
                         /\ timer_idx \notin s1.finished_timers
    IN  IF just_finished
        THEN [s1 EXCEPT
                 !.newly_finished = Append(@, <<timer_idx, config.frequency, config.name>>),
                 !.finished_timers = @ \cup {timer_idx},
                 !.timer_states[timer_idx].is_running = FALSE,
                 !.notified[timer_idx] = @ + 1]
        ELSE s1

\* The status line of one timer, from the values the loop body holds.
status_of(remaining_seconds, is_running, in_finished) ==
    IF remaining_seconds <= 0 /\ in_finished THEN "FINISHED"
    ELSE IF is_running THEN "Running"
    ELSE "Ready"

\* What a script run at this instant shows for timer_idx: the remaining
\* time read before the just_finished update, the status after it.
rendered(s, timer_idx) ==
    LET s1 == initialize_timer_state(s, timer_idx, s.timer_configs[timer_idx].minutes)
        remaining_seconds == get_time_remaining(s1, timer_idx)
        s2 == poll_timer(s, timer_idx)
    IN  [remaining |-> remaining_seconds,
         status |-> status_of(remaining_seconds,
                              s2.timer_states[timer_idx].is_running,
                              timer_idx \in s2.finished_timers)]

\* A button press delivered to the run: kind "none" for a run without one.
NoButton == [kind |-> "none", idx |-> None]

\* The display loop over the indices in order, with the pressed button ev.
\* A start, stop or reset button ends the run with st.rerun(); the test
\* button plays the tone and the loop goes on.
RECURSIVE display_loop(_, _, _)
display_loop(s, order, ev) ==
    IF order = <<>>
    THEN [rerun |-> FALSE, s |-> s]
    ELSE LET timer_idx == Head(order)
             s1 == poll_timer(s, timer_idx)
             pressed == ev.idx = timer_idx
         IN  IF pressed /\ ev.kind = "start"
             THEN [rerun |-> TRUE, s |-> start_timer(s1, timer_idx)]
             ELSE IF pressed /\ ev.kind = "stop"
             THEN [rerun |-> TRUE, s |-> stop_timer(s1, timer_idx)]
             ELSE IF pressed /\ ev.kind = "reset"
             THEN [rerun |-> TRUE, s |-> reset_timer(s1, timer_idx)]
             ELSE IF pressed /\ ev.kind = "test"
             THEN display_loop(
                      play_notification_sound(s1, s1.timer_configs[timer_idx].frequency),
                      Tail(order), ev)
             ELSE display_loop(s1, Tail(order), ev)

\* The sounds of the newly finished timers, after the display loop.
RECURSIVE play_newly_finished(_, _)
play_newly_finished(s, k) ==
    IF k > Len(s.newly_finished)
    THEN s
    ELSE play_newly_finished(play_notification_sound(s, s.newly_finished[k][2]), k + 1)

\* A script run from the display section on, with the pressed button ev.
display_section(s, ev) ==
    LET r == display_loop([s EXCEPT !.newly_finished = <<>>],
                          timer_indices(s.num_timers), ev)
    IN  IF r.rerun
        THEN r
        ELSE [rerun |-> FALSE, s |-> play_newly_finished(r.s, 1)]

\* A whole run in which no input changed and no button was pressed: the
\* run an auto-refresh or an st.rerun() starts.
script_run(s) == display_section(s, NoButton).s

\* A run with a per-timer button pressed, and the run its st.rerun() starts.
button_run(s, ev) ==
    LET r == display_section(s, ev)
    IN  IF r.rerun THEN script_run(r.s) ELSE r.s

any_running(s) ==
    \E i \in 0 .. (s.num_timers - 1) :
        i \in DOMAIN s.timer_states /\ s.timer_states[i].is_running

\* ------------------------------------------------------------- actions

\* The first script run of a session: the defaults, then the display loop.
Init ==
    /\ now = 0
    /\ LET s0 == [num_timers      |-> DefaultNumTimers,
                  timer_configs   |-> [i \in Slots |-> DefaultConfigs[i + 1]],
                  timer_states    |-> [i \in {} |-> 0],
                  finished_timers |-> {},
                  newly_finished  |-> <<>>,
                  notified        |-> [i \in Slots |-> 0],
                  reset_finished  |-> [i \in Slots |-> FALSE]]
           s == script_run(s0)
       IN  /\ num_timers = s.num_timers
           /\ timer_configs = s.timer_configs
           /\ timer_states = s.timer_states
           /\ finished_timers = s.finished_timers
           /\ newly_finished = s.newly_finished
           /\ notified = s.notified
           /\ reset_finished = s.reset_finished

\* The wall clock moves on to the next observed instant.
Tick ==
    /\ \E t \in Instants :
          /\ t > now
          /\ \A u \in Instants : u > now => t <= u
          /\ now' = t
    /\ UNCHANGED <<num_timers, timer_configs, timer_states, finished_timers,
                   newly_finished, notified, reset_finished>>

\* A run with nothing changed: the auto-refresh of a page with a running
\* timer, or a rerun the user asks for.
Poll ==
    /\ now' = now
    /\ Commit(script_run(Session))

\* The slider is moved to n: the run stores it and reruns.
SetNumTimers(n) ==
    /\ n # num_timers
    /\ now' = now
    /\ Commit(script_run([Session EXCEPT !.num_timers = n]))

\* Inputs of slot i changed: the run stores them and goes on to the display.
Configure(i, new_name, new_minutes, new_freq_idx) ==
    /\ i < num_timers
    /\ \/ new_name # timer_configs[i].name
       \/ new_minutes # timer_configs[i].minutes
       \/ AVAILABLE_FREQUENCIES[new_freq_idx] # timer_configs[i].frequency
    /\ now' = now
    /\ Commit(script_run(configure_timer(Session, i, new_name, new_minutes, new_freq_idx)))

StartAll ==
    /\ now' = now
    /\ Commit(script_run(start_all(Session, 0)))

StopAll ==
    /\ now' = now
    /\ Commit(script_run(stop_all(Session, 0)))

ResetAll ==
    /\ now' = now
    /\ Commit(script_run(reset_all(Session, 0)))

\* The buttons of a shown timer; Start is disabled while is_running, Stop
\* while not.
StartButton(i) ==
    /\ i < num_timers
    /\ ~timer_states[i].is_running
    /\ now' = now
    /\ Commit(button_run(Session, [kind |-> "start", idx |-> i]))

StopButton(i) ==
    /\ i < num_timers
    /\ timer_states[i].is_running
    /\ now' = now
    /\ Commit(button_run(Session, [kind |-> "stop", idx |-> i]))

ResetButton(i) ==
    /\ i < num_timers
    /\ now' = now
    /\ Commit(button_run(Session, [kind |-> "reset", idx |-> i]))

TestSound(i) ==
    /\ i < num_timers
    /\ now' = now
    /\ Commit(button_run(Session, [kind |-> "test", idx |-> i]))

Next ==
    \/ Tick
    \/ Poll
    \/ \E n \in 1 .. MaxTimers : SetNumTimers(n)
    \/ \E i \in Slots : \E new_name \in NameChoices(i) :
          \E new_minutes \in MinutesChoices(i) : \E new_freq_idx \in FrequencyChoices(i) :
              Configure(i, new_name, new_minutes, new_freq_idx)
    \/ StartAll
    \/ StopAll
    \/ ResetAll
    \/ \E i \in Slots : StartButton(i)
    \/ \E i \in Slots : StopButton(i)
    \/ \E i \in Slots : ResetButton(i)
    \/ \E i \in Slots : TestSound(i)

Spec == Init /\ [][Next]_vars

\* -------------------------------------------------------------- claims

IsRunning(i) == i \in DOMAIN timer_states /\ timer_states[i].is_running

Remaining(i) == get_time_remaining(Session, i)

InNewlyFinished(i) == \E k \in 1 .. Len(newly_finished) : newly_finished[k][1] = i

\* C1: stopping a Running timer freezes it: the remaining time read after
\* the stop equals the remaining time read at the stop instant, for the
\* per-timer Stop button and for Stop All.
C1_StopKeepsRemaining ==
    [][\A i \in Slots :
          (IsRunning(i) /\ (StopButton(i) \/ (StopAll /\ i < num_timers)))
              => Remaining(i)' = Remaining(i)]_vars

\* C2: a timer is appended to newly_finished at most once between two
\* resets of that timer.
C2_NotifiedAtMostOnce == \A i \in Slots : notified[i] <= 1

\* A timer that was reported, is still in finished_timers, and was not
\* reported by the latest run: a run after the one that finished it.
C2_Witness ==
    \E i \in Slots :
        /\ notified[i] = 1
        /\ i \in finished_timers
        /\ ~InNewlyFinished(i)
        /\ IsRunning(i)
        /\ Remaining(i) = 0

\* C3: a run without user action (the auto-refresh) that finds a shown
\* timer Running with remaining time 0 turns it Finished and lists it in
\* its newly_finished.
C3_PollFinishesExpired ==
    LET r == script_run(Session)
    IN  \A i \in 0 .. (num_timers - 1) :
            (IsRunning(i) /\ Remaining(i) = 0)
                => /\ ~r.timer_states[i].is_running
                   /\ i \in r.finished_timers
                   /\ \E k \in 1 .. Len(r.newly_finished) : r.newly_finished[k][1] = i

\* C4: a timer the latest run reported finished (so not reset or started
\* since) reads remaining time 0 and is shown FINISHED by a run made now.
C4_FinishedStaysAtZero ==
    \A i \in Slots :
        InNewlyFinished(i)
            => /\ Remaining(i) = 0
               /\ rendered(Session, i).status = "FINISHED"

\* C5: a Running timer started at s with duration d seconds reads
\* max(0, d - (now - s)); a Ready timer reads d; a timer of 15 s started
\* at 0 reads 5 at 10 and 0 at 16.
C5_RemainingFormula ==
    \A i \in DOMAIN timer_states :
        LET st == timer_states[i]
            d == 15 * st.duration
            left == d - (now - st.start_time)
        IN  /\ st.is_running =>
                /\ st.start_time # None
                /\ now >= st.start_time
                /\ Remaining(i) = IF left > 0 THEN left ELSE 0
            /\ st.start_time = None => Remaining(i) = d
            /\ (st.is_running /\ d = 15 /\ st.start_time = 0 /\ now = 10) => Remaining(i) = 5
            /\ (st.is_running /\ d = 15 /\ st.start_time = 0 /\ now = 16) => Remaining(i) = 0

\* A 15 s timer started at 0, still Running, read at 16.
C5_Witness ==
    \E i \in DOMAIN timer_states :
        /\ timer_states[i].is_running
        /\ timer_states[i].duration = 1
        /\ timer_states[i].start_time = 0
        /\ now = 16
        /\ Remaining(i) = 0

\* C6: starting a timer that is already Running changes nothing of it:
\* start_time, duration and remaining time stay, for the per-timer Start
\* button and for Start All.
C6_StartOfRunningIsNoOp ==
    [][\A i \in Slots :
          (IsRunning(i) /\ (StartButton(i) \/ (StartAll /\ i < num_timers)))
              => /\ timer_states'[i].start_time = timer_states[i].start_time
                 /\ timer_states'[i].duration = timer_states[i].duration
                 /\ Remaining(i)' = Remaining(i)]_vars

\* C7: after every start of a timer that is not Running, the duration it
\* counts down from is the duration configured for its slot.
C7_StartTakesConfiguredDuration ==
    [][\A i \in Slots :
          (~IsRunning(i) /\ (StartButton(i) \/ (StartAll /\ i < num_timers)))
              => timer_states'[i].duration = timer_configs'[i].minutes]_vars

\* C8: a run that receives edited inputs for the slot of a Running timer
\* leaves the timer's duration and start_time (so its finish instant), and
\* its remaining time while it runs, as they were, and stores the new name.
C8_EditWhileRunning ==
    \A i \in 0 .. (num_timers - 1) :
        \A new_name \in NameChoices(i) : \A new_minutes \in MinutesChoices(i) :
            \A new_freq_idx \in FrequencyChoices(i) :
                IsRunning(i) =>
                    LET r == script_run(configure_timer(Session, i, new_name,
                                                        new_minutes, new_freq_idx))
                    IN  /\ r.timer_states[i].duration = timer_states[i].duration
                        /\ r.timer_states[i].start_time = timer_states[i].start_time
                        /\ r.timer_states[i].is_running
                               => get_time_remaining(r, i) = Remaining(i)
                        /\ r.timer_configs[i].name = new_name

\* A Running timer whose slot was renamed and given other minutes than the
\* timer counts down from.
C8_Witness ==
    \E i \in Slots :
        /\ IsRunning(i)
        /\ timer_states[i].duration # timer_configs[i].minutes
        /\ timer_configs[i].name = "Renamed"
        /\ Remaining(i) > 0

\* C9: the tone of a timer cannot change mid-run.  No step changes the
\* frequency configured for the slot of a timer that is Running before and
\* after it, and the frequency a run puts in newly_finished for a timer it
\* finishes (the tone it plays) is the one configured before that run; so
\* the tone played is the one configured when the run was started.
C9_ToneFixedDuringRun ==
    [][\A i \in Slots :
          IsRunning(i) =>
              /\ IsRunning(i)' => timer_configs'[i].frequency = timer_configs[i].frequency
              /\ \A k \in 1 .. Len(newly_finished') :
                     newly_finished'[k][1] = i
                         => newly_finished'[k][2] = timer_configs[i].frequency]_vars

IsReady(s, i) ==
    /\ s.timer_states[i].start_time = None
    /\ ~s.timer_states[i].is_running
    /\ i \notin s.finished_timers

\* C10: reset_timer, the Reset button and Reset All leave a timer Ready
\* (start_time None, not running, not in finished_timers) from any state;
\* a start after the reset runs from the full duration; and a Running
\* timer outside finished_timers that has reached 0 is reported by the run.
C10_ResetLeavesReady ==
    /\ \A i \in DOMAIN timer_states :
           LET r == reset_timer(Session, i)
           IN  /\ IsReady(r, i)
               /\ get_time_remaining(r, i) = 15 * timer_states[i].duration
    /\ \A i \in 0 .. (num_timers - 1) :
           LET r1 == button_run(Session, [kind |-> "reset", idx |-> i])
               r2 == script_run(reset_all(Session, 0))
               r3 == button_run(r1, [kind |-> "start", idx |-> i])
               r4 == script_run(Session)
           IN  /\ IsReady(r1, i)
               /\ IsReady(r2, i)
               /\ r3.timer_states[i].is_running
               /\ r3.timer_states[i].start_time = now
               /\ get_time_remaining(r3, i) = 15 * r3.timer_states[i].duration
               /\ i \notin r3.finished_timers
               /\ (IsRunning(i) /\ Remaining(i) = 0 /\ i \notin finished_timers)
                      => \E k \in 1 .. Len(r4.newly_finished) : r4.newly_finished[k][1] = i

\* A timer that was reset after it had finished and has been reported
\* finished again by the latest run.
C10_Witness ==
    \E i \in Slots :
        /\ reset_finished[i]
        /\ InNewlyFinished(i)
        /\ notified[i] = 1

\* What the session holds about timer j: its entry and its membership in
\* finished_timers.
TimerView(s, j) ==
    [state |-> s.timer_states[j], finished |-> j \in s.finished_timers]

\* C11: start, stop or reset of one timer leaves every other timer's
\* start_time, is_running, duration and membership in finished_timers as
\* they were; a run with a button of timer i pressed (Start is disabled
\* while i runs, Stop while it does not) leaves every other timer as the
\* run without the button leaves it.
C11_OthersUntouched ==
    LET polled == script_run(Session)
    IN  \A i \in DOMAIN timer_states :
            LET others == DOMAIN timer_states \ {i}
                started == start_timer(Session, i)
                stopped == stop_timer(Session, i)
                cleared == reset_timer(Session, i)
            IN  /\ \A j \in others :
                       /\ TimerView(started, j) = TimerView(Session, j)
                       /\ TimerView(stopped, j) = TimerView(Session, j)
                       /\ TimerView(cleared, j) = TimerView(Session, j)
                /\ i < num_timers =>
                       \A kind \in {IF timer_states[i].is_running THEN "stop" ELSE "start",
                                    "reset"} :
                           LET pressed == button_run(Session, [kind |-> kind, idx |-> i])
                           IN  \A j \in others :
                                   TimerView(pressed, j) = TimerView(polled, j)

\* Two timers in different phases: one Running, started later than the
\* other, which is Finished.
C11_Witness ==
    \E i \in DOMAIN timer_states : \E j \in DOMAIN timer_states :
        /\ i # j
        /\ timer_states[i].is_running
        /\ ~timer_states[j].is_running
        /\ j \in finished_timers
        /\ timer_states[j].start_time # None
        /\ timer_states[i].start_time > timer_states[j].start_time

\* C12: Start All, Stop All and Reset All apply the single-timer operation
\* to every slot below num_timers before the display loop of the run (the
\* poll pass) reads any timer: the state the handler leaves, and the state
\* the run that follows commits, have every shown timer started at now,
\* not running, or Ready.
C12_GlobalControlsWhole ==
    LET started == start_all(Session, 0)
        stopped == stop_all(Session, 0)
        cleared == reset_all(Session, 0)
        started_shown == script_run(started)
        stopped_shown == script_run(stopped)
        cleared_shown == script_run(cleared)
    IN  \A i \in 0 .. (num_timers - 1) :
            /\ i \in DOMAIN started.timer_states
            /\ started.timer_states[i] =
                   start_timer(initialize_timer_state(Session, i, timer_configs[i].minutes),
                               i).timer_states[i]
            /\ started.timer_states[i].is_running
            /\ started.timer_states[i].start_time = now
            /\ started_shown.timer_states[i] = started.timer_states[i]
            /\ stopped.timer_states[i] = stop_timer(Session, i).timer_states[i]
            /\ ~stopped.timer_states[i].is_running
            /\ ~stopped_shown.timer_states[i].is_running
            /\ IsReady(cleared, i)
            /\ IsReady(cleared_shown, i)

\* Two shown timers running from the same instant, later than the page
\* load: a Start All acted on both.
C12_Witness ==
    /\ num_timers = 2
    /\ now > 0
    /\ \A i \in {0, 1} : IsRunning(i) /\ timer_states[i].start_time = now

\* The timer ids a call may name: the slots, and one beyond every slot.
CallableIds == Slots \cup {MaxTimers}

\* C13 as stated: start, stop, reset and the remaining-time query on a
\* timer id with no entry in timer_states fail with an unknown-timer error
\* and change no state.
C13_UnknownTimerFails ==
    \A timer_id \in CallableIds : \A fn \in TimerFunctions :
        timer_id \notin DOMAIN timer_states
            => /\ timer_call(Session, fn, timer_id).raised
               /\ timer_call(Session, fn, timer_id).s = Session

\* C13 amended: start, stop and reset on a timer id with no entry in
\* timer_states return without an error and change no state, and the
\* remaining-time query returns None.
C13_UnknownTimerIgnored ==
    \A timer_id \in CallableIds : \A fn \in TimerFunctions :
        timer_id \notin DOMAIN timer_states
            => /\ ~timer_call(Session, fn, timer_id).raised
               /\ timer_call(Session, fn, timer_id).s = Session
               /\ timer_call(Session, fn, timer_id).value = None
               /\ get_time_remaining(Session, timer_id) = None
               /\ start_timer(Session, timer_id) = Session
               /\ stop_timer(Session, timer_id) = Session
               /\ reset_timer(Session, timer_id) = Session

\* A slot of the page that has no entry yet, while another timer runs.
C13_Witness ==
    \E timer_id \in Slots : \E i \in Slots :
        /\ timer_id \notin DOMAIN timer_states
        /\ IsRunning(i)
        /\ now > timer_states[i].start_time

\* C14: the remaining time of a Running timer never increases and never
\* goes below 0: over every step in which only the clock moves or only a
\* run without user action happens, and the timer is Running before and
\* after, the remaining time read after is at most the one read before,
\* and at least 0.
C14_RemainingNeverIncreases ==
    [][\A i \in Slots :
          (IsRunning(i) /\ IsRunning(i)' /\ (Tick \/ Poll))
              => /\ Remaining(i)' <= Remaining(i)
                 /\ Remaining(i)' >= 0
                 /\ Remaining(i) >= 0]_vars

\* A Running timer read after the clock has moved on from its start, with
\* part of its time gone and part left.
C14_Witness ==
    \E i \in Slots :
        /\ IsRunning(i)
        /\ now > timer_states[i].start_time
        /\ Remaining(i) > 0
        /\ Remaining(i) < 15 * timer_states[i].duration

\* C15 as stated: a timer's start_time is set if and only if the timer is
\* Running or Finished; a Ready timer, a stopped one included, has
\* start_time = None.
C15_StartTimeIffActive ==
    \A i \in DOMAIN timer_states :
        (timer_states[i].start_time # None)
            <=> (timer_states[i].is_running \/ i \in finished_timers)

\* C15 amended: a timer that is Running or Finished has start_time set; a
\* timer has start_time = None as long as it was not started since its
\* creation or its last reset (start_time becomes set only by a start, to
\* the instant of the start); a stop leaves the timer not running with the
\* start_time of its last start.
C15_StartTimeSetFromStartToReset ==
    /\ [](\A i \in DOMAIN timer_states :
              /\ (timer_states[i].is_running \/ i \in finished_timers)
                     => timer_states[i].start_time # None
              /\ LET r == stop_timer(Session, i)
                 IN  /\ ~r.timer_states[i].is_running
                     /\ r.timer_states[i].start_time = timer_states[i].start_time
              /\ (i < num_timers /\ timer_states[i].is_running)
                     => LET r == button_run(Session, [kind |-> "stop", idx |-> i])
                        IN  /\ ~r.timer_states[i].is_running
                            /\ r.timer_states[i].start_time = timer_states[i].start_time)
    /\ [][\A i \in DOMAIN timer_states' :
              LET before == IF i \in DOMAIN timer_states
                            THEN timer_states[i].start_time
                            ELSE None
              IN  (before = None /\ timer_states'[i].start_time # None)
                      => /\ timer_states'[i].start_time = now
                         /\ timer_states'[i].is_running]_vars

\* A stopped timer: not running, not in finished_timers, shown Ready, with
\* the start_time of its last start.
C15_Witness ==
    \E i \in DOMAIN timer_states :
        /\ ~timer_states[i].is_running
        /\ i \notin finished_timers
        /\ timer_states[i].start_time # None
        /\ i < num_timers
        /\ rendered(Session, i).status = "Ready"

\* C16: each timer is in exactly one of Ready, Running, Finished: no timer
\* is at once Running (is_running) and Finished (in finished_timers).
C16_ExactlyOneStatus ==
    \A i \in DOMAIN timer_states :
        ~(timer_states[i].is_running /\ i \in finished_timers)

\* C17: a run without user action in which no shown Running timer has
\* reached zero changes no timer state (timer_states, finished_timers), so
\* every timer reads the same remaining time after the run as before it.
C17_PollWithoutExpiryChangesNothing ==
    LET r == script_run(Session)
    IN  (\A i \in 0 .. (num_timers - 1) : IsRunning(i) => Remaining(i) > 0)
            => /\ r.timer_states = timer_states
               /\ r.finished_timers = finished_timers
               /\ r.newly_finished = <<>>
               /\ \A i \in DOMAIN timer_states : get_time_remaining(r, i) = Remaining(i)

\* A Running timer with time left, read after the clock has moved past
\* its start, next to a timer that finished earlier.
C17_Witness ==
    \E i \in Slots : \E j \in Slots :
        /\ i < num_timers
        /\ IsRunning(i)
        /\ Remaining(i) > 0
        /\ now > timer_states[i].start_time
        /\ j \in finished_timers
        /\ ~IsRunning(j)

\* C18: the auto-refresh loop terminates.  Stated on one run: whenever the
\* page refreshes itself (a shown timer is running) and the refresh run
\* changes no timer state, some shown Running timer still has time left,
\* so that the clock going on brings a run that changes something; a state
\* where every shown Running timer reads 0 and the run changes nothing is
\* a loop that never ends, the reading staying 0 at every later instant.
C18_AutoRefreshTerminates ==
    LET r == script_run(Session)
    IN  (/\ any_running(Session)
         /\ r.timer_states = timer_states
         /\ r.finished_timers = finished_timers)
            => \E i \in 0 .. (num_timers - 1) : IsRunning(i) /\ Remaining(i) > 0

\* C19: after Stop All no timer in timer_states is running, and after
\* Reset All every timer in timer_states is Ready, whatever num_timers is.
C19_GlobalControlsReachEveryTimer ==
    LET stopped == script_run(stop_all(Session, 0))
        cleared == script_run(reset_all(Session, 0))
    IN  \A i \in DOMAIN timer_states :
            /\ ~stopped.timer_states[i].is_running
            /\ IsReady(cleared, i)

\* C20: every timer that is Running or is in finished_timers has an entry
\* in timer_states whose start_time is set, to an instant not after now,
\* so the elapsed time now - start_time is computed from a set start time.
C20_ActiveTimerHasStartTime ==
    /\ finished_timers \subseteq DOMAIN timer_states
    /\ \A i \in DOMAIN timer_states :
           (timer_states[i].is_running \/ i \in finished_timers)
               => /\ timer_states[i].start_time # None
                  /\ timer_states[i].start_time \in Instants
                  /\ timer_states[i].start_time <= now

\* A Finished timer next to a timer that is still Running in a slot the
\* page no longer shows.
C20_Witness ==
    \E i \in DOMAIN timer_states : \E j \in DOMAIN timer_states :
        /\ i \in finished_timers
        /\ ~timer_states[i].is_running
        /\ timer_states[j].is_running
        /\ j >= num_timers

====
